---- MODULE Spec2Model ----
(***************************************************************************)
(* Model of the ODE integration engine of cm_lab6:                         *)
(*   methods.py  euler_method, improved_euler_method, milne_method         *)
(*   utils.py    runge_error, solve                                        *)
(*   UI.py       MainWindow.parse_input, MainWindow.on_compute             *)
(*   ode.py      ODE_PROBLEMS                                              *)
(*                                                                         *)
(* Python floats are modelled by exact rationals <<num, den>> (den > 0,    *)
(* lowest terms), extended with the three IEEE specials                    *)
(*   <<0,0>> = nan, <<1,0>> = +inf, <<-1,0>> = -inf                        *)
(* where the driver's comparisons have to cope with them.                  *)
(***************************************************************************)
EXTENDS Integers, Sequences, FiniteSets, TLC

(***************************************************************************)
(* Exact rational arithmetic                                               *)
(***************************************************************************)
AbsI(n) == IF n < 0 THEN -n ELSE n

RECURSIVE GCD(_, _)
GCD(a, b) == IF b = 0 THEN a ELSE GCD(b, a % b)

Norm(n, d) ==
    LET s == IF d < 0 THEN -1 ELSE 1
        g == GCD(AbsI(n), AbsI(d))
    IN  IF g = 0 THEN <<0, 1>> ELSE <<(s * n) \div g, (s * d) \div g>>

NaN == <<0, 0>>
PosInf == <<1, 0>>
NegInf == <<-1, 0>>

IsFinite(a) == a[2] # 0
IsNaN(a) == a = NaN

R(n) == <<n, 1>>

RAdd(a, b) ==
    IF IsFinite(a) /\ IsFinite(b) THEN Norm(a[1] * b[2] + b[1] * a[2], a[2] * b[2])
    ELSE IF IsNaN(a) \/ IsNaN(b) THEN NaN
    ELSE IF IsFinite(a) THEN b
    ELSE IF IsFinite(b) THEN a
    ELSE IF a = b THEN a ELSE NaN

RNeg(a) == <<-a[1], a[2]>>

RSub(a, b) == RAdd(a, RNeg(b))

RMul(a, b) ==
    IF IsFinite(a) /\ IsFinite(b) THEN Norm(a[1] * b[1], a[2] * b[2])
    ELSE IF IsNaN(a) \/ IsNaN(b) \/ a[1] = 0 \/ b[1] = 0 THEN NaN
    ELSE IF (a[1] > 0) = (b[1] > 0) THEN PosInf ELSE NegInf

\* a / k for an integer k > 0
RDivInt(a, k) == IF IsFinite(a) THEN Norm(a[1], a[2] * k) ELSE a

\* a / b for finite a and finite b > 0
RDiv(a, b) == Norm(a[1] * b[2], a[2] * b[1])

RAbs(a) == <<AbsI(a[1]), a[2]>>

\* IEEE comparisons: every comparison with nan is false
RLt(a, b) ==
    IF IsNaN(a) \/ IsNaN(b) THEN FALSE
    ELSE IF IsFinite(a) /\ IsFinite(b) THEN a[1] * b[2] < b[1] * a[2]
    ELSE IF IsFinite(a) THEN b = PosInf
    ELSE IF IsFinite(b) THEN a = NegInf
    ELSE a = NegInf /\ b = PosInf

RLe(a, b) == IF IsNaN(a) \/ IsNaN(b) THEN FALSE ELSE RLt(a, b) \/ a = b

RGt(a, b) == RLt(b, a)

RFloor(a) == a[1] \div a[2]

RCeil(a) == -((-a[1]) \div a[2])

\* Python 3 round(): to nearest, ties to the even integer
PyRound(a) ==
    LET fl == RFloor(a)
        twice == 2 * (a[1] - fl * a[2])
    IN  IF twice < a[2] THEN fl
        ELSE IF twice > a[2] THEN fl + 1
        ELSE IF fl % 2 = 0 THEN fl ELSE fl + 1

RECURSIVE Pow(_, _)
Pow(b, e) == IF e = 0 THEN 1 ELSE b * Pow(b, e - 1)

\* 0 < d - 1e-14, i.e. d > 10^-14, for a finite rational d (10^14 = 10^7 * 10^7)
GtTol(d) == d[1] > (d[2] \div 10000000) \div 10000000

(***************************************************************************)
(* ode.py: the problem table.  ode3 (rhs sin(x) + y) has no rational       *)
(* values and is not part of the model; the steppers and the driver treat  *)
(* every problem alike, through ode.f only.                                *)
(***************************************************************************)
ODE_PROBLEMS == {0, 1}

\* ode.f(x, y): ode1 is y - x*x + 1, ode2 is x + y
f(ode, x, y) ==
    IF ode = 0 THEN RAdd(RSub(y, RMul(x, x)), R(1))
    ELSE RAdd(x, y)

(***************************************************************************)
(* UI.py parse_input: text.replace(",", ".") followed by float(...)        *)
(* A text is a sequence of one-character strings.                          *)
(***************************************************************************)
ReplaceComma(s) == [k \in 1..Len(s) |-> IF s[k] = "," THEN "." ELSE s[k]]

DigitChars == {"0", "1", "2", "3", "4", "5", "6", "7", "8", "9"}

DigitVal(c) ==
    CASE c = "0" -> 0 [] c = "1" -> 1 [] c = "2" -> 2 [] c = "3" -> 3
      [] c = "4" -> 4 [] c = "5" -> 5 [] c = "6" -> 6 [] c = "7" -> 7
      [] c = "8" -> 8 [] c = "9" -> 9

RECURSIVE DigitsValue(_, _)
DigitsValue(s, acc) ==
    IF s = <<>> THEN acc
    ELSE IF Head(s) = "." THEN DigitsValue(Tail(s), acc)
    ELSE DigitsValue(Tail(s), 10 * acc + DigitVal(Head(s)))

ValueError == <<"ValueError">>

\* float(s) for plain decimal literals: [sign] digits [. digits]; anything
\* else raises ValueError
PyFloat(s) ==
    LET signed == s # <<>> /\ Head(s) \in {"-", "+"}
        body == IF signed THEN Tail(s) ELSE s
        dots == {k \in 1..Len(body) : body[k] = "."}
        digs == {k \in 1..Len(body) : body[k] \in DigitChars}
        wellFormed == /\ digs # {}
                      /\ Cardinality(dots) <= 1
                      /\ dots \cup digs = 1..Len(body)
        frac == IF dots = {} THEN 0 ELSE Len(body) - (CHOOSE k \in dots : TRUE)
        mag == Norm(DigitsValue(body, 0), Pow(10, frac))
    IN  IF ~wellFormed THEN ValueError
        ELSE IF signed /\ Head(s) = "-" THEN RNeg(mag) ELSE mag

ParseField(text) == PyFloat(ReplaceComma(text))

(***************************************************************************)
(* State                                                                   *)
(***************************************************************************)
VARIABLES
    form,      \* UI: the texts of ode_combo, x0_edit, y0_edit, xn_edit, h_edit, err_edit
    ui,        \* UI: position of on_compute
    results,   \* UI: the tuples returned by the solve calls made so far
    shown,     \* UI: what canvas.plot and the three tables display
    args,      \* solve: method, ode, x0, y0, xn, h (initial), eps, p
    h,         \* solve: the current step
    pc,        \* solve: position in the while loop
    xs1, ys1,  \* solve: trajectory at h
    xs2, ys2,  \* solve: trajectory at h / 2
    err,       \* solve: the scalar error bound
    spc,       \* stepper: position
    sh,        \* stepper: its parameter h
    xs, ys,    \* stepper: the trajectory being built
    x, y,      \* stepper: the current point
    k,         \* milne_method: bootstrap iterations done
    f_vals,    \* milne_method: derivative cache
    i,         \* milne_method: index of the last accepted point
    calls,     \* history: stepper invocations made by the current solve
    coarseN,   \* history: the n of every iteration that went on to call the stepper
    h1,        \* history: the step that produced xs1, ys1
    iter,      \* history: number of rejected iterations
    rejErrs    \* history: the error bounds of the rejected iterations

uiVars == <<form, ui, results, shown>>
solveVars == <<args, h, pc, xs1, ys1, xs2, ys2, err>>
stepVars == <<spc, sh, xs, ys, x, y, k, f_vals, i>>
histVars == <<calls, coarseN, h1, iter, rejErrs>>
vars == <<form, ui, results, shown, args, h, pc, xs1, ys1, xs2, ys2, err,
          spc, sh, xs, ys, x, y, k, f_vals, i, calls, coarseN, h1, iter, rejErrs>>

\* Python indexing: s[j] with j counted from 0, s[-1] the last element
At(s, j) == s[j + 1]
Last(s) == s[Len(s)]

(***************************************************************************)
(* methods.py: the three steppers, one action per loop iteration           *)
(***************************************************************************)
\* xs, ys = [x0], [y0]; x, y = x0, y0
StepperEntry(hh) ==
    /\ sh' = hh
    /\ xs' = <<args.x0>>
    /\ ys' = <<args.y0>>
    /\ x' = args.x0
    /\ y' = args.y0
    /\ k' = 0
    /\ f_vals' = <<>>
    /\ i' = 0
    /\ spc' = CASE args.method = "milne_method" -> "boot"
                [] args.method = "any" -> "any"
                [] OTHER -> "loop"

\* y + h * f(x, y)
EulerY(ode, xx, yy, hh) == RAdd(yy, RMul(hh, f(ode, xx, yy)))

\* k1, y_pred, k2 and y + (h / 2) * (k1 + k2)
HeunY(ode, xx, yy, hh) ==
    LET k1 == f(ode, xx, yy)
        y_pred == RAdd(yy, RMul(hh, k1))
        k2 == f(ode, RAdd(xx, hh), y_pred)
    IN  RAdd(yy, RMul(RDivInt(hh, 2), RAdd(k1, k2)))

\* a loop that appends x without advancing it
SteppedXStuck(xx, hh) == xx

\* the x appended to xs by one step of the Euler-type loops
SteppedX(xx, hh) == RAdd(xx, hh)

\* a loop that also steps from x = xn: while x <= xn
EulerContinueLe(xx, xn) == RLe(xx, xn)

\* while x < xn (euler_method)
EulerContinue(xx, xn) == RLt(xx, xn)

\* while x < xn (improved_euler_method)
ImprovedEulerContinue(xx, xn) == RLt(xx, xn)

EulerStep ==
    /\ spc = "loop" /\ args.method = "euler_method"
    /\ EulerContinue(x, args.xn)
    /\ y' = EulerY(args.ode, x, y, sh)
    /\ x' = SteppedX(x, sh)
    /\ xs' = Append(xs, x')
    /\ ys' = Append(ys, y')
    /\ UNCHANGED <<spc, sh, k, f_vals, i>>
    /\ UNCHANGED <<uiVars, solveVars, histVars>>

EulerReturn ==
    /\ spc = "loop" /\ args.method = "euler_method"
    /\ ~EulerContinue(x, args.xn)
    /\ spc' = "done"
    /\ UNCHANGED <<sh, xs, ys, x, y, k, f_vals, i>>
    /\ UNCHANGED <<uiVars, solveVars, histVars>>

ImprovedEulerStep ==
    /\ spc = "loop" /\ args.method = "improved_euler_method"
    /\ ImprovedEulerContinue(x, args.xn)
    /\ y' = HeunY(args.ode, x, y, sh)
    /\ x' = SteppedX(x, sh)
    /\ xs' = Append(xs, x')
    /\ ys' = Append(ys, y')
    /\ UNCHANGED <<spc, sh, k, f_vals, i>>
    /\ UNCHANGED <<uiVars, solveVars, histVars>>

ImprovedEulerReturn ==
    /\ spc = "loop" /\ args.method = "improved_euler_method"
    /\ ~ImprovedEulerContinue(x, args.xn)
    /\ spc' = "done"
    /\ UNCHANGED <<sh, xs, ys, x, y, k, f_vals, i>>
    /\ UNCHANGED <<uiVars, solveVars, histVars>>

\* for _ in range(3): one Improved Euler step, whatever xn is
MilneBootY(ode, xx, yy, hh) == HeunY(ode, xx, yy, hh)

MilneBootstrap ==
    /\ spc = "boot" /\ k < 3
    /\ y' = MilneBootY(args.ode, x, y, sh)
    /\ x' = RAdd(x, sh)
    /\ xs' = Append(xs, x')
    /\ ys' = Append(ys, y')
    /\ k' = k + 1
    /\ UNCHANGED <<spc, sh, f_vals, i>>
    /\ UNCHANGED <<uiVars, solveVars, histVars>>

\* f_vals = [ode.f(xx, yy) for xx, yy in zip(xs, ys)]; i = 3
MilneCache ==
    /\ spc = "boot" /\ k = 3
    /\ f_vals' = [j \in 1..Len(xs) |-> f(args.ode, xs[j], ys[j])]
    /\ i' = 3
    /\ spc' = "mloop"
    /\ UNCHANGED <<sh, xs, ys, x, y, k>>
    /\ UNCHANGED <<uiVars, solveVars, histVars>>

\* while xs[-1] + 1e-14 < xn
MilneContinue == GtTol(RSub(args.xn, Last(xs)))

MilneNextX(xsq, hh) == RAdd(Last(xsq), hh)

\* a cache that keeps the derivative at the predicted value
MilneCacheValuePred(ode, x_next, y_pred, y_corr) == f(ode, x_next, y_pred)

\* f_vals.append(ode.f(x_next, y_corr)): the value cached
MilneCacheValue(ode, x_next, y_pred, y_corr) == f(ode, x_next, y_corr)

MilneStep ==
    /\ spc = "mloop"
    /\ MilneContinue
    /\ LET x_next == MilneNextX(xs, sh)
           y_pred == RAdd(At(ys, i - 3),
                          RMul(RDivInt(RMul(R(4), sh), 3),
                               RAdd(RSub(RMul(R(2), At(f_vals, i)), At(f_vals, i - 1)),
                                    RMul(R(2), At(f_vals, i - 2)))))
           f_pred == f(args.ode, x_next, y_pred)
           y_corr == RAdd(At(ys, i - 1),
                          RMul(RDivInt(sh, 3),
                               RAdd(RAdd(At(f_vals, i - 1), RMul(R(4), At(f_vals, i))),
                                    f_pred)))
       IN  /\ xs' = Append(xs, x_next)
           /\ ys' = Append(ys, y_corr)
           /\ f_vals' = Append(f_vals, MilneCacheValue(args.ode, x_next, y_pred, y_corr))
    /\ i' = i + 1
    /\ UNCHANGED <<spc, sh, x, y, k>>
    /\ UNCHANGED <<uiVars, solveVars, histVars>>

MilneReturn ==
    /\ spc = "mloop"
    /\ ~MilneContinue
    /\ spc' = "done"
    /\ UNCHANGED <<sh, xs, ys, x, y, k, f_vals, i>>
    /\ UNCHANGED <<uiVars, solveVars, histVars>>

(***************************************************************************)
(* utils.py: runge_error and solve                                         *)
(***************************************************************************)
Min(a, b) == IF a < b THEN a ELSE b

\* s[::2]
EvenSlice(s) == [j \in 1..((Len(s) + 1) \div 2) |-> s[2 * j - 1]]

\* zip(a, b): the pairs up to the shorter length
Zip(a, b) == [j \in 1..Min(Len(a), Len(b)) |-> <<a[j], b[j]>>]

\* max(iterable) as Python folds it: the running maximum is replaced only by
\* an item that compares greater
RECURSIVE PyMaxFrom(_, _, _)
PyMaxFrom(s, j, m) ==
    IF j > Len(s) THEN m
    ELSE PyMaxFrom(s, j + 1, IF RGt(s[j], m) THEN s[j] ELSE m)

PyMax(s) == PyMaxFrom(s, 2, s[1])

\* runge_error with the size test len(yh2) <= 2*len(yh) - 1
runge_error_le(yh, yh2, p) ==
    IF Len(yh2) <= 2 * Len(yh) - 1
    THEN [errs |-> [j \in 1..Len(yh) |-> NaN], reads |-> {}]
    ELSE LET factor == Pow(2, p) - 1
         IN  [errs |-> [j \in 1..Len(yh) |->
                           RDivInt(RAbs(RSub(At(yh2, 2 * (j - 1)), yh[j])), factor)],
              reads |-> {2 * (j - 1) : j \in 1..Len(yh)}]

\* the result of runge_error and the indices of yh2 it reads
runge_error(yh, yh2, p) ==
    IF Len(yh2) < 2 * Len(yh) - 1
    THEN [errs |-> [j \in 1..Len(yh) |-> NaN], reads |-> {}]
    ELSE LET factor == Pow(2, p) - 1
         IN  [errs |-> [j \in 1..Len(yh) |->
                           RDivInt(RAbs(RSub(At(yh2, 2 * (j - 1)), yh[j])), factor)],
              reads |-> {2 * (j - 1) : j \in 1..Len(yh)}]

MAX_POINTS == 150000

\* n = int(round((xn - x0) / h))
SolveN(x0, xn, hh) == PyRound(RDiv(RSub(xn, x0), hh))

\* the pairs solve takes the maximum over
ErrPairs(a, b) == Zip(a, EvenSlice(b))

\* err = max(abs(a - b) / denom for a, b in zip(ys1, ys2[::2]))
SolveErrOf(a, b, p) ==
    LET denom == Pow(2, p) - 1
        pairs == ErrPairs(a, b)
    IN  PyMax([j \in 1..Len(pairs) |->
                  RDivInt(RAbs(RSub(pairs[j][1], pairs[j][2])), denom)])

\* the ceiling test off by one: n > MAX_POINTS
CeilingHitStrict(n) == n > MAX_POINTS

\* if n >= MAX_POINTS
CeilingHit(n) == n >= MAX_POINTS

\* the comparison the wrong way round: eps <= err
AcceptsFlipped(e, eps) == RLe(eps, e)

\* if err <= eps
Accepts(e, eps) == RLe(e, eps)

\* a driver that retries at the same step
HalvedNot(hh) == hh

\* h /= 2
Halved(hh) == RDivInt(hh, 2)

\* the step solve hands back
ReturnedH(hh) == hh

\* largest number of steps of a fine run that the exact arithmetic of the
\* concrete steppers is carried through
MaxFineSteps == 4

\* solve(method, ode, x0, y0, xn, h, eps, p, gui) is entered
SolveEntry(a) ==
    /\ args' = a
    /\ h' = a.h
    /\ pc' = "check"
    /\ xs1' = <<>> /\ ys1' = <<>> /\ xs2' = <<>> /\ ys2' = <<>>
    /\ err' = NaN
    /\ calls' = 0 /\ coarseN' = {} /\ h1' = NaN /\ iter' = 0 /\ rejErrs' = {}

SolveRaise ==
    /\ pc = "check"
    /\ CeilingHit(SolveN(args.x0, args.xn, h))
    /\ pc' = "OverflowError"
    /\ UNCHANGED <<args, h, xs1, ys1, xs2, ys2, err>>
    /\ UNCHANGED <<uiVars, stepVars, histVars>>

\* xs1, ys1 = method(ode, x0, y0, xn, h): the call
SolveCallCoarse ==
    /\ pc = "check"
    /\ ~CeilingHit(SolveN(args.x0, args.xn, h))
    /\ StepperEntry(h)
    /\ pc' = "coarse"
    /\ calls' = calls + 1
    /\ coarseN' = coarseN \cup {SolveN(args.x0, args.xn, h)}
    /\ UNCHANGED <<args, h, xs1, ys1, xs2, ys2, err, h1, iter, rejErrs>>
    /\ UNCHANGED uiVars

\* the coarse call returns; xs2, ys2 = method(ode, x0, y0, xn, h / 2): the call
SolveCallFine ==
    /\ pc = "coarse" /\ spc = "done"
    /\ xs1' = xs /\ ys1' = ys
    /\ h1' = sh
    /\ StepperEntry(RDivInt(h, 2))
    /\ pc' = "fine"
    /\ calls' = calls + 1
    /\ UNCHANGED <<args, h, xs2, ys2, err, coarseN, iter, rejErrs>>
    /\ UNCHANGED uiVars

\* the fine call returns; denom and err are computed
SolveErr ==
    /\ pc = "fine" /\ spc = "done"
    /\ xs2' = xs /\ ys2' = ys
    /\ err' = SolveErrOf(ys1, ys, args.p)
    /\ pc' = "decide"
    /\ spc' = "idle"
    /\ UNCHANGED <<args, h, xs1, ys1>>
    /\ UNCHANGED <<sh, xs, ys, x, y, k, f_vals, i>>
    /\ UNCHANGED <<uiVars, histVars>>

\* return xs1, ys1, err, h
SolveReturn ==
    /\ pc = "decide"
    /\ Accepts(err, args.eps)
    /\ pc' = "returned"
    /\ h' = ReturnedH(h)
    /\ UNCHANGED <<args, xs1, ys1, xs2, ys2, err>>
    /\ UNCHANGED <<uiVars, stepVars, histVars>>

\* h /= 2 and the next iteration
SolveHalve ==
    /\ pc = "decide"
    /\ ~Accepts(err, args.eps)
    /\ \/ args.method = "any"
       \/ SolveN(args.x0, args.xn, RDivInt(h, 4)) <= MaxFineSteps
    /\ h' = Halved(h)
    /\ pc' = "check"
    /\ iter' = iter + 1
    /\ rejErrs' = rejErrs \cup {err}
    /\ UNCHANGED <<args, xs1, ys1, xs2, ys2, err, calls, coarseN, h1>>
    /\ UNCHANGED <<uiVars, stepVars>>

\* solve's result tuple
SolveResult == <<xs1, ys1, err, h>>

(***************************************************************************)
(* solve called with an arbitrary stepper: the call returns some non-empty *)
(* list of values, finite or not                                           *)
(***************************************************************************)
AnyTrajectories ==
    { <<R(0)>>, <<R(1)>>, <<NaN>>, <<PosInf>>,
      <<R(0), R(1), NaN>>, <<NaN, R(1), R(0)>> }

AnyStepperReturn ==
    /\ spc = "any"
    /\ \E tr \in AnyTrajectories :
          /\ ys' = tr
          /\ xs' = [j \in 1..Len(tr) |-> RAdd(args.x0, RMul(R(j - 1), sh))]
    /\ spc' = "done"
    /\ UNCHANGED <<sh, x, y, k, f_vals, i>>
    /\ UNCHANGED <<uiVars, solveVars, histVars>>

(***************************************************************************)
(* UI.py: MainWindow.parse_input and MainWindow.on_compute                 *)
(***************************************************************************)
\* parse_input with the interval test xn < x0
parse_input_lt(fm) ==
    LET x0 == ParseField(fm.x0)
        y0 == ParseField(fm.y0)
        xn == ParseField(fm.xn)
        hh == ParseField(fm.h)
        epsilon == ParseField(fm.eps)
        floats == ValueError \notin {x0, y0, xn, hh, epsilon}
    IN  IF ~floats THEN [ok |-> FALSE]
        ELSE IF RLt(xn, x0) \/ RLe(hh, R(0)) \/ RLe(epsilon, R(0)) THEN [ok |-> FALSE]
        ELSE [ok |-> TRUE, ode |-> fm.ode, x0 |-> x0, y0 |-> y0, xn |-> xn,
              h |-> hh, eps |-> epsilon]

\* the checked tuple, or ok = FALSE where parse_input raises ValueError
parse_input(fm) ==
    LET x0 == ParseField(fm.x0)
        y0 == ParseField(fm.y0)
        xn == ParseField(fm.xn)
        hh == ParseField(fm.h)
        epsilon == ParseField(fm.eps)
        floats == ValueError \notin {x0, y0, xn, hh, epsilon}
    IN  IF ~floats THEN [ok |-> FALSE]
        ELSE IF RLe(xn, x0) \/ RLe(hh, R(0)) \/ RLe(epsilon, R(0)) THEN [ok |-> FALSE]
        ELSE [ok |-> TRUE, ode |-> fm.ode, x0 |-> x0, y0 |-> y0, xn |-> xn,
              h |-> hh, eps |-> epsilon]

\* the arguments of the solve call for one method
SolveArgs(in, method, p) ==
    [method |-> method, ode |-> in.ode, x0 |-> in.x0, y0 |-> in.y0, xn |-> in.xn,
     h |-> in.h, eps |-> in.eps, p |-> p]

\* except ValueError: "Input error", return
OnComputeReject ==
    /\ ui = "idle"
    /\ ~parse_input(form).ok
    /\ ui' = "input_error"
    /\ UNCHANGED <<form, results, shown>>
    /\ UNCHANGED <<solveVars, stepVars, histVars>>

\* solve(euler_method, ..., 1, self)
OnComputeEuler ==
    /\ ui = "idle"
    /\ parse_input(form).ok
    /\ SolveEntry(SolveArgs(parse_input(form), "euler_method", 1))
    /\ ui' = "solving"
    /\ UNCHANGED <<form, results, shown>>
    /\ UNCHANGED stepVars

\* solve(improved_euler_method, ..., 2, self)
OnComputeImprovedEuler ==
    /\ ui = "solving" /\ pc = "returned" /\ args.method = "euler_method"
    /\ results' = Append(results, SolveResult)
    /\ SolveEntry(SolveArgs(parse_input(form), "improved_euler_method", 2))
    /\ UNCHANGED <<form, ui, shown>>
    /\ UNCHANGED stepVars

\* solve(milne_method, ..., 4, self)
OnComputeMilne ==
    /\ ui = "solving" /\ pc = "returned" /\ args.method = "improved_euler_method"
    /\ results' = Append(results, SolveResult)
    /\ SolveEntry(SolveArgs(parse_input(form), "milne_method", 4))
    /\ UNCHANGED <<form, ui, shown>>
    /\ UNCHANGED stepVars

\* except OverflowError: "Computation failed", return
OnComputeOverflow ==
    /\ ui = "solving" /\ pc = "OverflowError"
    /\ ui' = "computation_failed"
    /\ UNCHANGED <<form, results, shown>>
    /\ UNCHANGED <<solveVars, stepVars, histVars>>

\* canvas.plot, the three tables, "Computation finished"
OnComputeShow ==
    /\ ui = "solving" /\ pc = "returned" /\ args.method = "milne_method"
    /\ results' = Append(results, SolveResult)
    /\ shown' = [j \in 1..3 |-> <<results'[j][1], results'[j][2]>>]
    /\ ui' = "finished"
    /\ UNCHANGED form
    /\ UNCHANGED <<solveVars, stepVars, histVars>>

(***************************************************************************)
(* runge_error applied to two lists                                        *)
(***************************************************************************)
RungeApply ==
    /\ ui = "runge" /\ pc = "call"
    /\ results' = runge_error(ys1, ys2, args.p)
    /\ pc' = "returned"
    /\ UNCHANGED <<form, ui, shown, args, h, xs1, ys1, xs2, ys2, err>>
    /\ UNCHANGED <<stepVars, histVars>>

(***************************************************************************)
(* Initial states                                                          *)
(***************************************************************************)
NoArgs == [method |-> "none", ode |-> 0, x0 |-> R(0), y0 |-> R(0), xn |-> R(0),
           h |-> R(0), eps |-> R(0), p |-> 1]

NoForm == [ode |-> 0, x0 |-> <<>>, y0 |-> <<>>, xn |-> <<>>, h |-> <<>>, eps |-> <<>>]

StepperIdle ==
    /\ spc = "idle" /\ sh = NaN /\ xs = <<>> /\ ys = <<>> /\ x = NaN /\ y = NaN
    /\ k = 0 /\ f_vals = <<>> /\ i = 0

SolveIdle ==
    /\ h = NaN /\ xs1 = <<>> /\ ys1 = <<>> /\ xs2 = <<>> /\ ys2 = <<>> /\ err = NaN
    /\ calls = 0 /\ coarseN = {} /\ h1 = NaN /\ iter = 0 /\ rejErrs = {}

\* texts typed into the form
X0Texts == { <<"0">>, <<"1">> }
Y0Texts == { <<"1">> }
XnTexts == { <<"0">>, <<"1">>, <<"2">>, <<"3">>, <<"4">>, <<"1", "5", "0", "0", "0", "0">> }
HTexts == { <<"1">>, <<"2">>, <<"4", ",", "0">>, <<"0">>, <<"-", "1">>, <<"a">> }
EpsTexts == { <<"1", "0", "0">>, <<"0", ",", "9", "7">>, <<"0", ",", "2">>, <<"0">> }

\* the first fine run of a form stays within MaxFineSteps, or the form is
\* rejected, or it hits the point ceiling at once
Feasible(fm) ==
    LET in == parse_input(fm)
    IN  \/ ~in.ok
        \/ SolveN(in.x0, in.xn, RDivInt(in.h, 2)) <= MaxFineSteps
        \/ CeilingHit(SolveN(in.x0, in.xn, in.h))

Init ==
    /\ form \in { fm \in [ode : ODE_PROBLEMS, x0 : X0Texts, y0 : Y0Texts, xn : XnTexts,
                          h : HTexts, eps : EpsTexts] : Feasible(fm) }
    /\ ui = "idle"
    /\ results = <<>>
    /\ shown = <<>>
    /\ args = NoArgs
    /\ pc = "idle"
    /\ SolveIdle
    /\ StepperIdle

StepperNext ==
    \/ EulerStep \/ EulerReturn
    \/ ImprovedEulerStep \/ ImprovedEulerReturn
    \/ MilneBootstrap \/ MilneCache \/ MilneStep \/ MilneReturn

SolveNext ==
    \/ SolveRaise \/ SolveCallCoarse \/ SolveCallFine
    \/ SolveErr \/ SolveReturn \/ SolveHalve

OnComputeNext ==
    \/ OnComputeReject \/ OnComputeEuler \/ OnComputeImprovedEuler
    \/ OnComputeMilne \/ OnComputeOverflow \/ OnComputeShow

Next == OnComputeNext \/ SolveNext \/ StepperNext

Spec == Init /\ [][Next]_vars

\* solve called directly with an arbitrary stepper
DirectArgs ==
    { [method |-> "any", ode |-> 0, x0 |-> R(0), y0 |-> R(1), xn |-> R(in[1]),
       h |-> in[2], eps |-> in[3], p |-> in[4]] :
      in \in { <<40000, R(1), <<1, 2>>, 1>>,
               <<30000, <<2, 5>>, <<1, 4>>, 2>>,
               <<149999, R(1), <<1, 2>>, 4>>,
               <<150000, R(1), R(1), 1>>,
               <<299999, R(2), <<1, 2>>, 1>>,
               <<299997, R(2), <<1, 2>>, 2>>,
               <<300001, R(2), R(1), 4>> } }

InitSolve ==
    /\ form = NoForm
    /\ ui = "direct"
    /\ results = <<>>
    /\ shown = <<>>
    /\ args \in DirectArgs
    /\ h = args.h
    /\ pc = "check"
    /\ xs1 = <<>> /\ ys1 = <<>> /\ xs2 = <<>> /\ ys2 = <<>> /\ err = NaN
    /\ calls = 0 /\ coarseN = {} /\ h1 = NaN /\ iter = 0 /\ rejErrs = {}
    /\ StepperIdle

NextSolve == SolveNext \/ AnyStepperReturn

\* solve runs to completion: nothing suspends it (single-threaded, synchronous)
SpecSolve == InitSolve /\ [][NextSolve]_vars /\ WF_vars(NextSolve)

\* inputs of runge_error
RungeValues == { R(0), R(1), R(-2), <<1, 2>> }
MaxLenYh == 2
MaxLenYh2 == 4

SeqsUpTo(S, n) == UNION { [1..m -> S] : m \in 0..n }

InitRunge ==
    /\ form = NoForm
    /\ ui = "runge"
    /\ results = <<>>
    /\ shown = <<>>
    /\ \E p \in {1, 2, 4} : args = [NoArgs EXCEPT !.method = "runge_error", !.p = p]
    /\ pc = "call"
    /\ ys1 \in SeqsUpTo(RungeValues, MaxLenYh)
    /\ ys2 \in SeqsUpTo(RungeValues, MaxLenYh2)
    /\ h = NaN /\ xs1 = <<>> /\ xs2 = <<>> /\ err = NaN
    /\ calls = 0 /\ coarseN = {} /\ h1 = NaN /\ iter = 0 /\ rejErrs = {}
    /\ StepperIdle

NextRunge == RungeApply

SpecRunge == InitRunge /\ [][NextRunge]_vars

(***************************************************************************)
(* Properties                                                              *)
(***************************************************************************)
Terminated == pc \in {"returned", "OverflowError"}

\* (xn - x0) / h of the running solve, for a step hh
Ratio(hh) == RDiv(RSub(args.xn, args.x0), hh)

\* C1: solve never loops forever.  Every execution of solve ends by returning
\* or by raising OverflowError, whatever the stepper returns (also nan or
\* infinite bounds): a rejected iteration always halves h and goes back to the
\* point-count check, and no iteration gets past the check once
\* round((xn - x0) / h) has reached MAX_POINTS.
C1_SolveTerminates ==
    /\ <>Terminated
    /\ [][pc = "decide" /\ pc' # "returned" => pc' = "check" /\ h' = RDivInt(h, 2)]_vars
    /\ [](pc \in {"coarse", "fine", "decide"} => PyRound(Ratio(h)) < MAX_POINTS)

C1_Witness ==
    /\ pc = "OverflowError"
    /\ iter >= 1
    /\ NaN \in rejErrs
    /\ PosInf \in rejErrs

\* C2: solve returns only with err <= eps; the returned h is the first element
\* of h_initial, h_initial/2, h_initial/4, ... whose error bound is <= eps (every
\* earlier one was rejected with a bound that is not <= eps); xs1, ys1 and err
\* are those computed at that h; a return in the first iteration leaves h
\* unchanged and has made exactly two stepper calls.
C2_ReturnsFirstAccepted ==
    pc = "returned" =>
        /\ RLe(err, args.eps)
        /\ h = RDivInt(args.h, Pow(2, iter))
        /\ \A e \in rejErrs : ~RLe(e, args.eps)
        /\ iter = 0 => rejErrs = {}
        /\ h1 = h
        /\ Len(xs1) = Len(ys1)
        /\ \A j \in 1..(Len(xs1) - 1) : RSub(xs1[j + 1], xs1[j]) = h
        /\ sh = RDivInt(h, 2) /\ ys2 = ys
        /\ \E j \in 1..Len(ErrPairs(ys1, ys2)) :
              RMul(err, R(Pow(2, args.p) - 1)) = RAbs(RSub(ys1[j], ys2[2 * j - 1]))
        /\ calls = 2 * (iter + 1)
        /\ iter = 0 => h = args.h /\ calls = 2

C2_Witness ==
    /\ pc = "returned"
    /\ iter = 1
    /\ args.method = "euler_method"
    /\ Len(ys1) >= 3

\* C3: the point-count check precedes the stepper calls.  No stepper is ever
\* invoked at a coarse step h with round((xn - x0) / h) >= 150000, and when
\* (xn - x0) / h_initial >= 150000 solve raises at once with zero stepper calls.
C3_CheckBeforeStepper ==
    /\ \A n \in coarseN : n < 150000
    /\ pc = "coarse" => sh = h /\ PyRound(Ratio(sh)) < 150000
    /\ (pc # "idle" /\ RLe(R(150000), Ratio(args.h))) =>
            /\ calls = 0
            /\ spc = "idle"
            /\ pc \in {"check", "OverflowError"}

C3_Witness ==
    /\ pc = "OverflowError"
    /\ RLe(R(150000), Ratio(args.h))
    /\ calls = 0

\* number of points x0 + j*hh (j = 0, 1, ...) that fit in [x0, xn]
FitPoints(hh) == RFloor(Ratio(hh)) + 1

\* C4: solve run with the Milne stepper never gets past its two stepper calls
\* (to the error bound or to a return) when fewer than 4 points fit in
\* [x0, xn] at h or at h/2: it signals the "insufficient points" ValueError.
C4_InsufficientPointsSignalled ==
    (/\ args.method = "milne_method"
     /\ FitPoints(h) < 4 \/ FitPoints(RDivInt(h, 2)) < 4)
    => pc \notin {"decide", "returned"}

\* C5: in every iteration of solve the maximum is taken over all indices of
\* ys1: the fine trajectory has at least 2*len(ys1) - 1 points and every
\* coarse sample has its pair.
C5_ErrCoversAllCoarse ==
    pc \in {"decide", "returned"} =>
        /\ Len(ys2) >= 2 * Len(ys1) - 1
        /\ Len(ErrPairs(ys1, ys2)) = Len(ys1)

\* the samples of the finished Euler-type run that lie strictly before xn
Before == {j \in 1..Len(xs) : RLt(xs[j], args.xn)}

EulerTypeDone ==
    /\ spc = "done"
    /\ args.method \in {"euler_method", "improved_euler_method"}

\* C6 as stated: floor((xn - x0)/h) + 1 samples with x < xn, then exactly one
\* more, the first with x >= xn, which exceeds xn by less than h.
C6_Original ==
    EulerTypeDone =>
        /\ Cardinality(Before) = RFloor(Ratio(sh)) + 1
        /\ Before = 1..(Len(xs) - 1)
        /\ RLe(args.xn, Last(xs))
        /\ RLt(RSub(Last(xs), args.xn), sh)

\* C6 (amended): euler_method and improved_euler_method return
\* ceil((xn - x0)/h) samples with x < xn, then exactly one more, the first with
\* x >= xn, which exceeds xn by less than h; the count is floor((xn - x0)/h) + 1
\* exactly when h does not divide xn - x0, and when it does the last sample is
\* xn itself.
C6_SampleCount ==
    EulerTypeDone =>
        /\ Cardinality(Before) = RCeil(Ratio(sh))
        /\ Before = 1..(Len(xs) - 1)
        /\ Len(ys) = Len(xs)
        /\ RLe(args.xn, Last(xs))
        /\ RLt(RSub(Last(xs), args.xn), sh)
        /\ Ratio(sh)[2] # 1 => Cardinality(Before) = RFloor(Ratio(sh)) + 1
        /\ Ratio(sh)[2] = 1 => Last(xs) = args.xn

C6_Witness ==
    /\ EulerTypeDone
    /\ Ratio(sh)[2] = 1
    /\ Len(xs) >= 3

\* C7: the samples at indices 1, 2, 3 of a trajectory returned by milne_method
\* equal the samples at indices 1, 2, 3 of the trajectory improved_euler_method
\* returned for the same (x0, y0, xn, h).  results[2] is what solve returned
\* for improved_euler_method, at the step results[2][4].
C7_MilneBootstrapIsImprovedEuler ==
    (/\ args.method = "milne_method" /\ spc = "done"
     /\ Len(results) = 2 /\ results[2][4] = sh)
    => /\ Len(results[2][2]) >= 4
       /\ \A j \in 1..3 : /\ At(xs, j) = At(results[2][1], j)
                          /\ At(ys, j) = At(results[2][2], j)

\* C8: runge_error returns len(yh) entries; all nan (and nothing of yh2 read)
\* if len(yh2) < 2*len(yh) - 1; otherwise entry i is |yh2[2i] - yh[i]| / (2^p - 1),
\* non-negative, and every index of yh2 read is within its bounds.
C8_RungeError ==
    (ui = "runge" /\ pc = "returned") =>
        /\ Len(results.errs) = Len(ys1)
        /\ IF Len(ys2) < 2 * Len(ys1) - 1
           THEN /\ \A j \in 1..Len(ys1) : IsNaN(results.errs[j])
                /\ results.reads = {}
           ELSE /\ \A j \in 1..Len(ys1) :
                     /\ RMul(results.errs[j], R(Pow(2, args.p) - 1))
                            = RAbs(RSub(ys2[2 * j - 1], ys1[j]))
                     /\ RLe(R(0), results.errs[j])
                /\ results.reads \subseteq 0..(Len(ys2) - 1)

C8_Witness ==
    /\ ui = "runge" /\ pc = "returned"
    /\ Len(ys1) = 2 /\ Len(ys2) = 3
    /\ results.errs[2] # R(0)

\* the form parses to numbers that are invalid parameters
Invalid ==
    LET x0 == ParseField(form.x0)
        xn == ParseField(form.xn)
        hh == ParseField(form.h)
        epsilon == ParseField(form.eps)
    IN  /\ ValueError \notin {x0, xn, hh, epsilon}
        /\ RLe(xn, x0) \/ RLe(hh, R(0)) \/ RLe(epsilon, R(0))

\* C9: with xn <= x0, h <= 0 or epsilon <= 0, on_compute only reports the input
\* error: solve and the steppers are never entered and neither the plot nor
\* the tables change.
C9_InvalidRejected ==
    Invalid =>
        /\ ui \in {"idle", "input_error"}
        /\ pc = "idle" /\ calls = 0
        /\ spc = "idle" /\ xs = <<>> /\ ys = <<>>
        /\ results = <<>> /\ shown = <<>>

C9_Witness ==
    /\ ui = "input_error"
    /\ Invalid
    /\ RLe(ParseField(form.xn), ParseField(form.x0))

\* C10: at every point of a stepper's loop and on return, xs and ys have the
\* same length, the first sample is (x0, y0), and consecutive xs differ by
\* exactly h > 0.
C10_Trajectory ==
    (spc \in {"loop", "boot", "mloop", "done"} /\ args.method # "any") =>
        /\ Len(xs) = Len(ys)
        /\ Len(xs) >= 1
        /\ xs[1] = args.x0 /\ ys[1] = args.y0
        /\ \A j \in 1..(Len(xs) - 1) :
              /\ RSub(xs[j + 1], xs[j]) = sh
              /\ RLt(xs[j], xs[j + 1])

C10_Witness ==
    /\ spc = "done"
    /\ args.method = "milne_method"
    /\ Len(xs) >= 5

\* milne_method is in, or has just left, its predictor-corrector loop
InMilneLoop == args.method = "milne_method" /\ spc \in {"mloop", "done"}

\* C11: in milne_method's predictor-corrector loop the derivative cache is in
\* lock-step with the trajectory.  Whenever the loop condition is evaluated,
\* len(f_vals) = len(xs) = len(ys) and i = len(xs) - 1 >= 3, every f_vals[k] is
\* f(xs[k], ys[k]), the indices i-3 .. i that the predictor and corrector read
\* are within bounds, and an iteration only appends one entry to the cache,
\* leaving the earlier ones as they were.
C11_CacheLockStep ==
    /\ [](InMilneLoop =>
            /\ Len(f_vals) = Len(xs) /\ Len(xs) = Len(ys)
            /\ i = Len(xs) - 1 /\ i >= 3
            /\ \A j \in 1..Len(f_vals) : f_vals[j] = f(args.ode, xs[j], ys[j])
            /\ (i - 3)..i \subseteq 0..(Len(f_vals) - 1)
            /\ (i - 3)..i \subseteq 0..(Len(ys) - 1))
    /\ [][(InMilneLoop /\ spc' \in {"mloop", "done"}) =>
            /\ Len(f_vals') \in {Len(f_vals), Len(f_vals) + 1}
            /\ \A j \in 1..Len(f_vals) : f_vals'[j] = f_vals[j]]_vars

C11_Witness ==
    /\ args.method = "milne_method" /\ spc = "mloop"
    /\ i = 4
    /\ Len(f_vals) = 5
    /\ f_vals[5] # f_vals[4]

====
